---- MODULE Spec2Model ----
(***************************************************************************)
(* Model of the custodial relay of src/server.js: the Express route table  *)
(* (the router mounted at /auth and the app-level handlers registered      *)
(* after it), the balance helper getBalance, the transfer helper           *)
(* sendSolTransaction and the two app-level handlers that call them.       *)
(*                                                                         *)
(* Every request is a small process.  A handler runs to completion up to   *)
(* its next await (JavaScript's run-to-completion), so one action models   *)
(* the synchronous stretch of code between two awaits.  The remote ledger  *)
(* node is the environment: each awaited RPC call resolves or rejects by   *)
(* a nondeterministic choice.                                              *)
(*                                                                         *)
(* The controllers imported from ../controllers/authControllers.js         *)
(* (authenticateToken, checkBalance, sendTransaction) are not part of the  *)
(* source; they are modelled from the specification (sections 4.3-4.5).    *)
(***************************************************************************)
EXTENDS Integers, Sequences, FiniteSets, TLC

\* Number of requests in one behaviour.
NumReqs == 2
\* Number of times the ledger's latest blockhash advances in one behaviour.
MaxBlocks == 1
\* Number of fields in which a transfer request differs from a well-formed one.
MaxDefects == 2

\* lamports per SOL: `amount * 1e9' and `balanceInLamports / 1e9'.
LamportsPerSol == 1000000000

Reqs == 1..NumReqs

(***************************************************************************)
(* JavaScript values as they arrive in req.body and req.params.            *)
(***************************************************************************)
Undefined == [t |-> "undefined"]
Num(n) == [t |-> "number", n |-> n]
Str(s) == [t |-> "string", s |-> s]
\* An array of `len' bytes; `seed' names the account whose key pair the
\* bytes encode.
Bytes(len, seed) == [t |-> "array", len |-> len, seed |-> seed]

\* The accounts of the ledger: the strings that decode to a 32-byte key.
Accounts == {"S1", "S2", "R1"}

\* JavaScript's `!v' for the values above (an array is never falsy).
Falsy(v) ==
  \/ v.t = "undefined"
  \/ v.t = "number" /\ v.n = 0
  \/ v.t = "string" /\ v.s = ""

(***************************************************************************)
(* The inputs.                                                             *)
(***************************************************************************)
Tokens == {"none", "valid"}
AddressInputs == {Str("S1"), Str("bad")}
SenderAddressInputs == {Undefined, Str("S1"), Str("S2")}
PrivateKeyInputs == {Undefined, Bytes(32, "S1"), Bytes(64, "S1"), Bytes(64, "S2")}
RecipientInputs == {Undefined, Str("R1"), Str("S2"), Str("bad")}
AmountInputs == {Undefined, Num(0), Num(-1), Num(1), Num(2)}

NoBody ==
  [senderAddress |-> Undefined, senderPrivateKey |-> Undefined,
   recipientAddress |-> Undefined, amount |-> Undefined]

BalanceRoutes ==
  { <<"POST", "/auth/check-balance">>, <<"GET", "/auth/balance/:address">>,
    <<"GET", "/api/check-balance/:publicKey">> }

BalanceRequests ==
  { [method |-> mp[1], path |-> mp[2], token |-> tk, address |-> a, body |-> NoBody] :
      mp \in BalanceRoutes, tk \in Tokens, a \in AddressInputs }

\* A well-formed transfer request, and the request bodies that differ from
\* it in at most MaxDefects fields.
WellFormedBody ==
  [senderAddress |-> Str("S1"), senderPrivateKey |-> Bytes(64, "S1"),
   recipientAddress |-> Str("R1"), amount |-> Num(1)]

SendBodies ==
  { b \in [senderAddress : SenderAddressInputs, senderPrivateKey : PrivateKeyInputs,
            recipientAddress : RecipientInputs, amount : AmountInputs] :
      Cardinality({ f \in DOMAIN b : b[f] # WellFormedBody[f] }) <= MaxDefects }

SendRequests ==
  { [method |-> "POST", path |-> "/auth/send", token |-> tk, address |-> Undefined,
     body |-> b] : tk \in Tokens, b \in SendBodies }

Requests == BalanceRequests \cup SendRequests

NoRequest ==
  [method |-> "", path |-> "", token |-> "none", address |-> Undefined, body |-> NoBody]

(***************************************************************************)
(* The route table, in registration order.  The router mounted at /auth    *)
(* comes first (app.use("/auth", authRoutes)), its routes in the order     *)
(* the router registers them; the app-level handlers follow.               *)
(***************************************************************************)
RouterLayers ==
  << [owner |-> "router", method |-> "POST", path |-> "/auth/check-balance",
      handlers |-> <<"authenticateToken", "checkBalance">>],
     [owner |-> "router", method |-> "POST", path |-> "/auth/send",
      handlers |-> <<"authenticateToken", "sendTransaction">>],
     [owner |-> "router", method |-> "GET", path |-> "/auth/balance/:address",
      handlers |-> <<"authenticateToken", "checkBalance">>] >>

AppBalanceLayer ==
  [owner |-> "app", method |-> "GET", path |-> "/api/check-balance/:publicKey",
   handlers |-> <<"appCheckBalance">>]

AppSendLayer ==
  [owner |-> "app", method |-> "POST", path |-> "/auth/send",
   handlers |-> <<"appSend">>]

\* A plausible slip: the app-level transfer handler registered before the
\* router is mounted.
AppStackSendFirst == <<AppSendLayer>> \o RouterLayers \o <<AppBalanceLayer>>

AppStack == RouterLayers \o <<AppBalanceLayer, AppSendLayer>>

Matches(layer, q) == layer.method = q.method /\ layer.path = q.path

\* The first layer at or after index `from' that matches the request, or 0.
NextMatch(q, from) ==
  LET S == { i \in from..Len(AppStack) : Matches(AppStack[i], q) }
  IN IF S = {} THEN 0 ELSE CHOOSE i \in S : \A j \in S : i <= j

NoPos == [layer |-> 0, h |-> 0]

\* Where next() passes control to: the route's next handler, else the next
\* matching layer.
NextPos(q, p) ==
  IF p.h < Len(AppStack[p.layer].handlers)
  THEN [layer |-> p.layer, h |-> p.h + 1]
  ELSE [layer |-> NextMatch(q, p.layer + 1), h |-> 1]

(***************************************************************************)
(* The local variables of one sendSolTransaction call.                     *)
(***************************************************************************)
NoTransaction ==
  [fromPubkey |-> "", toPubkey |-> "", lamports |-> 0,
   recentBlockhash |-> 0, feePayer |-> "", signers |-> {}]

NoFrame ==
  [senderKeypair |-> "", transaction |-> NoTransaction, blockhash |-> 0,
   signature |-> ""]

\* The shape of a response: the status and the fields of the JSON body.
NoBodyOut ==
  [status |-> 0, error |-> "", message |-> "", success |-> FALSE,
   signature |-> "", balance |-> <<0, 0>>]

VARIABLES
  req,          \* req[r]: the request
  pc,           \* pc[r]: "idle", "dispatch", the await the request is at, "done"
  pos,          \* pos[r]: the layer and handler the request is dispatched to
  user,         \* user[r]: req.user, set by the gate when it accepts the token
  frame,        \* frame[r]: the locals of the request's sendSolTransaction call
  rpcLog,       \* rpcLog[r]: the RPC calls made for the request, in order
  submitted,    \* submitted[r]: the transactions the node received for r
  issued,       \* issued[r]: the blockhashes the node returned to r
  confirm,      \* confirm[r]: what the confirmation wait of r ended with
  cause,        \* cause[r]: the failure that ended r's transfer, "" if none
  res,          \* res[r]: the responses sent for r, in order
  tip,          \* the ledger's latest blockhash
  encoderStrict \* whether this build's instruction encoder rejects lamports < 0

vars ==
  << req, pc, pos, user, frame, rpcLog, submitted, issued, confirm, cause,
     res, tip, encoderStrict >>

Init ==
  /\ req = [r \in Reqs |-> NoRequest]
  /\ pc = [r \in Reqs |-> "idle"]
  /\ pos = [r \in Reqs |-> NoPos]
  /\ user = [r \in Reqs |-> ""]
  /\ frame = [r \in Reqs |-> NoFrame]
  /\ rpcLog = [r \in Reqs |-> <<>>]
  /\ submitted = [r \in Reqs |-> <<>>]
  /\ issued = [r \in Reqs |-> <<>>]
  /\ confirm = [r \in Reqs |-> ""]
  /\ cause = [r \in Reqs |-> ""]
  /\ res = [r \in Reqs |-> <<>>]
  /\ tip = 1
  /\ encoderStrict \in BOOLEAN

Handler(r) == AppStack[pos[r].layer].handlers[pos[r].h]

AtHandler(r, h) == pc[r] = "dispatch" /\ pos[r].layer > 0 /\ Handler(r) = h

\* A plausible slip: a `return' is missing and the response is sent again.
RespondTwice(r, body) ==
  /\ res' = [res EXCEPT ![r] = Append(Append(@, body), body)]
  /\ pc' = [pc EXCEPT ![r] = "done"]

\* res.status(s).json(...): one response is sent and the handler returns.
Respond(r, body) ==
  /\ res' = [res EXCEPT ![r] = Append(@, body)]
  /\ pc' = [pc EXCEPT ![r] = "done"]

\* A request arrives (the requests are numbered in their order of arrival) and
\* Express dispatches it to the first matching layer.
Arrive(r) ==
  /\ pc[r] = "idle"
  /\ \A o \in Reqs : o < r => pc[o] # "idle"
  /\ \E q \in Requests :
       /\ NextMatch(q, 1) > 0
       /\ req' = [req EXCEPT ![r] = q]
       /\ pos' = [pos EXCEPT ![r] = [layer |-> NextMatch(q, 1), h |-> 1]]
  /\ pc' = [pc EXCEPT ![r] = "dispatch"]
  /\ UNCHANGED << user, frame, rpcLog, submitted, issued, confirm, cause, res,
                  tip, encoderStrict >>

\* The ledger produces a block: the latest blockhash changes.
NewBlock ==
  /\ tip <= MaxBlocks
  /\ tip' = tip + 1
  /\ UNCHANGED << req, pc, pos, user, frame, rpcLog, submitted, issued, confirm,
                  cause, res, encoderStrict >>

\* next(): control passes to the route's next handler or to the next matching
\* layer; with no layer left, Express answers 404 itself.
PassOn(r) ==
  LET p == NextPos(req[r], pos[r]) IN
    IF p.layer = 0
    THEN /\ Respond(r, [NoBodyOut EXCEPT !.status = 404, !.error = "Not Found"])
         /\ UNCHANGED pos
    ELSE /\ pos' = [pos EXCEPT ![r] = p]
         /\ UNCHANGED << pc, res >>

(***************************************************************************)
(* The Authorization Gate (authenticateToken, specification 4.4): a valid  *)
(* bearer token sets req.user and passes control on; any other token is    *)
(* answered by the gate and the call is rejected.                          *)
(***************************************************************************)
TokenAccepted(token) == token = "valid"

AuthenticateToken(r) ==
  /\ AtHandler(r, "authenticateToken")
  /\ IF TokenAccepted(req[r].token)
     THEN /\ user' = [user EXCEPT ![r] = "subject"]
          /\ PassOn(r)
     ELSE /\ Respond(r, [NoBodyOut EXCEPT !.status = 401, !.error = "Unauthenticated"])
          /\ UNCHANGED << user, pos >>
  /\ UNCHANGED << req, frame, rpcLog, submitted, issued, confirm, cause, tip,
                  encoderStrict >>

(***************************************************************************)
(* new PublicKey(s): throws unless the string decodes to a 32-byte key.    *)
(***************************************************************************)
\* A plausible slip: no structural validation of the address.
PublicKeyAcceptsAll(v) == TRUE

PublicKeyOk(v) == v.t = "string" /\ v.s \in Accounts

\* balanceInLamports / 1e9, as the whole SOL and the remaining lamports.
LamportsToSol(l) == << l \div LamportsPerSol, l % LamportsPerSol >>

BalanceValues == {0, 1500000000}

(***************************************************************************)
(* The router's checkBalance controller (specification 4.5, 4.1): the      *)
(* address is validated, then the RPC client's get_balance is called.      *)
(***************************************************************************)
CheckBalance(r) ==
  /\ AtHandler(r, "checkBalance")
  /\ IF ~PublicKeyOk(req[r].address)
     THEN /\ Respond(r, [NoBodyOut EXCEPT !.status = 500,
                                         !.error = "Failed to retrieve balance"])
          /\ UNCHANGED rpcLog
     ELSE /\ rpcLog' = [rpcLog EXCEPT ![r] = Append(@, "getBalance")]
          /\ \/ \E l \in BalanceValues :
                  Respond(r, [NoBodyOut EXCEPT !.status = 200,
                                              !.balance = LamportsToSol(l)])
             \/ Respond(r, [NoBodyOut EXCEPT !.status = 500,
                                            !.error = "Failed to retrieve balance"])
  /\ UNCHANGED << req, pos, user, frame, submitted, issued, confirm, cause, tip,
                  encoderStrict >>

(***************************************************************************)
(* getBalance and the app-level handler of GET /api/check-balance.         *)
(* The handler calls getBalance, which builds the PublicKey (a throw is    *)
(* rethrown to the handler's catch) and then awaits connection.getBalance. *)
(***************************************************************************)
\* The catch of getBalance rethrows the error; the handler's catch answers
\* 500 'Failed to retrieve balance'.  `kind' records what failed.
FailBalance(r, kind) ==
  /\ cause' = [cause EXCEPT ![r] = kind]
  /\ Respond(r, [NoBodyOut EXCEPT !.status = 500,
                                 !.error = "Failed to retrieve balance"])

AppCheckBalance(r) ==
  /\ AtHandler(r, "appCheckBalance")
  /\ IF ~PublicKeyOk(req[r].address)
     THEN /\ FailBalance(r, "InvalidAddress")
          /\ UNCHANGED rpcLog
     ELSE /\ rpcLog' = [rpcLog EXCEPT ![r] = Append(@, "getBalance")]
          /\ pc' = [pc EXCEPT ![r] = "awaitBalance"]
          /\ UNCHANGED << res, cause >>
  /\ UNCHANGED << req, pos, user, frame, submitted, issued, confirm, tip,
                  encoderStrict >>

\* connection.getBalance resolves with the lamports, or rejects.
GetBalanceReturns(r) ==
  /\ pc[r] = "awaitBalance"
  /\ \/ /\ \E l \in BalanceValues :
             Respond(r, [NoBodyOut EXCEPT !.status = 200,
                                         !.balance = LamportsToSol(l)])
        /\ UNCHANGED cause
     \/ FailBalance(r, "UpstreamUnavailable")
  /\ UNCHANGED << req, pos, user, frame, rpcLog, submitted, issued, confirm, tip,
                  encoderStrict >>

(***************************************************************************)
(* The router's sendTransaction controller (specification 4.3, 6).  It     *)
(* either passes control on, and the next matching layer handles the       *)
(* request, or serves the request itself: it validates the request, runs   *)
(* the executor's stages and answers.                                      *)
(***************************************************************************)
\* The RPC calls the executor has made when it ends with outcome `o'.
ExecutorCalls(o) ==
  CASE o = "UpstreamUnavailable" -> <<"getLatestBlockhash">>
    [] o = "SubmissionRejected" -> <<"getLatestBlockhash", "sendTransaction">>
    [] OTHER -> <<"getLatestBlockhash", "sendTransaction", "confirmTransaction">>

ExecutorOutcomes ==
  {"UpstreamUnavailable", "SubmissionRejected", "ConfirmationTimeout", "ok"}

\* The request's structural failure, "" if it has none.
ExecutorInvalid(b) ==
  IF \E f \in DOMAIN b : b[f] = Undefined THEN "MissingFields"
  ELSE IF ~(b.senderPrivateKey.t = "array" /\ b.senderPrivateKey.len = 64)
       THEN "InvalidKeyMaterial"
  ELSE IF ~(b.recipientAddress.t = "string" /\ b.recipientAddress.s \in Accounts)
       THEN "InvalidAddress"
  ELSE IF b.amount.n <= 0 THEN "InvalidAmount"
  ELSE ""

SendTransaction(r) ==
  /\ AtHandler(r, "sendTransaction")
  /\ \/ /\ PassOn(r)
        /\ UNCHANGED << rpcLog, cause, confirm >>
     \/ /\ ExecutorInvalid(req[r].body) # ""
        /\ cause' = [cause EXCEPT ![r] = ExecutorInvalid(req[r].body)]
        /\ Respond(r, [NoBodyOut EXCEPT
                         !.status = IF ExecutorInvalid(req[r].body) = "MissingFields"
                                    THEN 400 ELSE 500,
                         !.error = ExecutorInvalid(req[r].body)])
        /\ UNCHANGED << rpcLog, confirm, pos >>
     \/ /\ ExecutorInvalid(req[r].body) = ""
        /\ \E o \in ExecutorOutcomes :
             /\ rpcLog' = [rpcLog EXCEPT ![r] = @ \o ExecutorCalls(o)]
             /\ IF o = "ok"
                THEN /\ confirm' = [confirm EXCEPT ![r] = "committed"]
                     /\ Respond(r, [NoBodyOut EXCEPT !.status = 200, !.success = TRUE,
                                      !.signature = "sig:" \o req[r].body.senderPrivateKey.seed])
                     /\ UNCHANGED cause
                ELSE /\ confirm' = [confirm EXCEPT ![r] =
                                      IF o = "ConfirmationTimeout" THEN "timeout" ELSE @]
                     /\ cause' = [cause EXCEPT ![r] = o]
                     /\ Respond(r, [NoBodyOut EXCEPT !.status = 500, !.error = o])
        /\ UNCHANGED pos
  /\ UNCHANGED << req, user, frame, submitted, issued, tip, encoderStrict >>

(***************************************************************************)
(* sendSolTransaction and the app-level handler of POST /auth/send.        *)
(***************************************************************************)
\* A plausible slip: senderPrivateKey left out of the presence check.
MissingFieldsNoKey(b) ==
  Falsy(b.senderAddress) \/ Falsy(b.recipientAddress) \/ Falsy(b.amount)

\* A plausible change: the request is also refused when senderAddress is not
\* the address of the supplied key.
MissingFieldsOrMismatch(b) ==
  \/ Falsy(b.senderAddress)
  \/ Falsy(b.senderPrivateKey)
  \/ Falsy(b.recipientAddress)
  \/ Falsy(b.amount)
  \/ b.senderAddress.s # b.senderPrivateKey.seed

\* !senderAddress || !senderPrivateKey || !recipientAddress || !amount
MissingFields(b) ==
  \/ Falsy(b.senderAddress)
  \/ Falsy(b.senderPrivateKey)
  \/ Falsy(b.recipientAddress)
  \/ Falsy(b.amount)

\* A plausible slip: the key pair built without checking the key's size.
SecretKeyAnySize(v) == v.t = "array"

\* Keypair.fromSecretKey(Uint8Array.from(v)) throws "bad secret key size"
\* unless it is given 64 bytes.
SecretKeyOk(v) == v.t = "array" /\ v.len = 64

\* SystemProgram.transfer encodes the lamports as an unsigned 64-bit integer;
\* whether a negative number makes the encoder throw depends on the build.
TransferEncodes(lamports) == lamports >= 0 \/ ~encoderStrict

\* 'Transaction failed: ' + error.message
TransactionFailed(msg) == "Transaction failed: " \o msg

\* A plausible slip: a confirmation that timed out is answered by submitting
\* the transaction again.
FailSendRetry(r, kind, msg) ==
  IF kind = "ConfirmationTimeout" /\ Len(submitted[r]) < 2
  THEN /\ rpcLog' = [rpcLog EXCEPT ![r] = Append(@, "sendTransaction")]
       /\ submitted' = [submitted EXCEPT ![r] = Append(@, frame[r].transaction)]
       /\ pc' = [pc EXCEPT ![r] = "awaitSend"]
       /\ UNCHANGED << cause, res >>
  ELSE /\ cause' = [cause EXCEPT ![r] = kind]
       /\ Respond(r, [NoBodyOut EXCEPT !.status = 500, !.error = "Transaction failed",
                                      !.message = TransactionFailed(msg)])
       /\ UNCHANGED << rpcLog, submitted >>

\* A plausible slip: the catch of sendSolTransaction logs the error and does
\* not rethrow it: the call returns undefined and the handler answers 200.
FailSendSwallowed(r, kind, msg) ==
  /\ cause' = [cause EXCEPT ![r] = kind]
  /\ Respond(r, [NoBodyOut EXCEPT !.status = 200, !.success = TRUE])
  /\ UNCHANGED << rpcLog, submitted >>

\* A plausible slip: the handler's catch logs the error and returns without
\* answering.
FailSendNoResponse(r, kind, msg) ==
  /\ cause' = [cause EXCEPT ![r] = kind]
  /\ pc' = [pc EXCEPT ![r] = "done"]
  /\ UNCHANGED << res, rpcLog, submitted >>

\* The catch of sendSolTransaction rethrows 'Transaction failed: ...'; the
\* handler's catch answers 500 with it.  `kind' records the stage that failed.
FailSend(r, kind, msg) ==
  /\ cause' = [cause EXCEPT ![r] = kind]
  /\ Respond(r, [NoBodyOut EXCEPT !.status = 500, !.error = "Transaction failed",
                                 !.message = TransactionFailed(msg)])
  /\ UNCHANGED << rpcLog, submitted >>

\* The handler up to the first await of sendSolTransaction: the presence
\* check, the key pair, the recipient's key, the transfer instruction, and
\* the call of connection.getLatestBlockhash.
AppSend(r) ==
  /\ AtHandler(r, "appSend")
  /\ LET b == req[r].body IN
       IF MissingFields(b)
       THEN /\ Respond(r, [NoBodyOut EXCEPT !.status = 400,
                                           !.error = "Missing required fields"])
            /\ UNCHANGED << frame, rpcLog, submitted, cause >>
       ELSE IF ~SecretKeyOk(b.senderPrivateKey)
       THEN /\ FailSend(r, "InvalidKeyMaterial", "bad secret key size")
            /\ UNCHANGED frame
       ELSE IF ~PublicKeyOk(b.recipientAddress)
       THEN /\ FailSend(r, "InvalidAddress", "Invalid public key input")
            /\ UNCHANGED frame
       ELSE IF ~TransferEncodes(b.amount.n * LamportsPerSol)
       THEN /\ FailSend(r, "InvalidAmount", "value out of range")
            /\ UNCHANGED frame
       ELSE /\ frame' = [frame EXCEPT ![r] =
                 [NoFrame EXCEPT
                    !.senderKeypair = b.senderPrivateKey.seed,
                    !.transaction =
                       [NoTransaction EXCEPT
                          !.fromPubkey = b.senderPrivateKey.seed,
                          !.toPubkey = b.recipientAddress.s,
                          !.lamports = b.amount.n * LamportsPerSol]]]
            /\ rpcLog' = [rpcLog EXCEPT ![r] = Append(@, "getLatestBlockhash")]
            /\ pc' = [pc EXCEPT ![r] = "awaitBlockhash"]
            /\ UNCHANGED << res, submitted, cause >>
  /\ UNCHANGED << req, pos, user, issued, confirm, tip, encoderStrict >>

\* A plausible slip: a blockhash kept from start-up instead of the one fetched.
CachedAnchor(blockhash) == 1

\* transaction.recentBlockhash = blockhash
AttachAnchor(blockhash) == blockhash

\* A plausible slip: the fee payer taken from the request's senderAddress.
FeePayerFromAddress(r) == req[r].body.senderAddress.s

\* transaction.feePayer = senderKeypair.publicKey
FeePayerOf(r) == frame[r].senderKeypair

\* A plausible slip: the key pair kept in a variable of the module, which
\* every request overwrites: a request signs with the key pair written last.
SignerShared(r) ==
  LET live == { o \in Reqs : frame[o].senderKeypair # "" }
  IN frame[CHOOSE o \in live : \A p \in live : p <= o].senderKeypair

\* connection.sendTransaction(transaction, [senderKeypair])
SignerOf(r) == frame[r].senderKeypair

\* The signature the node assigns to a transaction.
SignatureOf(tx) == "sig:" \o tx.fromPubkey

\* connection.getLatestBlockhash resolves, the transaction gets its
\* blockhash and fee payer and is signed and submitted; or the call rejects.
GetLatestBlockhashReturns(r) ==
  /\ pc[r] = "awaitBlockhash"
  /\ \/ LET tx == [frame[r].transaction EXCEPT
                     !.recentBlockhash = AttachAnchor(tip),
                     !.feePayer = FeePayerOf(r),
                     !.signers = {SignerOf(r)}]
        IN /\ frame' = [frame EXCEPT ![r].blockhash = tip, ![r].transaction = tx]
           /\ issued' = [issued EXCEPT ![r] = Append(@, tip)]
           /\ rpcLog' = [rpcLog EXCEPT ![r] = Append(@, "sendTransaction")]
           /\ submitted' = [submitted EXCEPT ![r] = Append(@, tx)]
           /\ pc' = [pc EXCEPT ![r] = "awaitSend"]
           /\ UNCHANGED << res, cause >>
     \/ /\ FailSend(r, "UpstreamUnavailable", "failed to get recent blockhash")
        /\ UNCHANGED << frame, issued >>
  /\ UNCHANGED << req, pos, user, confirm, tip, encoderStrict >>

\* connection.sendTransaction resolves with the signature and the
\* confirmation wait starts; or the node rejects the transaction.
SendTransactionReturns(r) ==
  /\ pc[r] = "awaitSend"
  /\ \/ /\ frame' = [frame EXCEPT ![r].signature = SignatureOf(frame[r].transaction)]
        /\ rpcLog' = [rpcLog EXCEPT ![r] = Append(@, "confirmTransaction")]
        /\ pc' = [pc EXCEPT ![r] = "awaitConfirm"]
        /\ UNCHANGED << res, cause, submitted >>
     \/ /\ FailSend(r, "SubmissionRejected", "failed to send transaction")
        /\ UNCHANGED frame
  /\ UNCHANGED << req, pos, user, issued, confirm, tip, encoderStrict >>

\* connection.confirmTransaction resolves with the transaction's status,
\* { value: { err } }, which the code does not read; or it rejects when the
\* confirmation is not observed in time.
ConfirmTransactionReturns(r) ==
  /\ pc[r] = "awaitConfirm"
  /\ \/ /\ \E status \in {"committed", "failed"} :
             confirm' = [confirm EXCEPT ![r] = status]
        /\ Respond(r, [NoBodyOut EXCEPT !.status = 200, !.success = TRUE,
                                       !.signature = frame[r].signature])
        /\ UNCHANGED << cause, rpcLog, submitted >>
     \/ /\ confirm' = [confirm EXCEPT ![r] = "timeout"]
        /\ FailSend(r, "ConfirmationTimeout", "Transaction was not confirmed")
  /\ UNCHANGED << req, pos, user, frame, issued, tip, encoderStrict >>

Next == \/ \E r \in Reqs : Arrive(r)
        \/ \E r \in Reqs : AuthenticateToken(r)
        \/ \E r \in Reqs : CheckBalance(r)
        \/ \E r \in Reqs : SendTransaction(r)
        \/ \E r \in Reqs : AppCheckBalance(r)
        \/ \E r \in Reqs : GetBalanceReturns(r)
        \/ \E r \in Reqs : AppSend(r)
        \/ \E r \in Reqs : GetLatestBlockhashReturns(r)
        \/ \E r \in Reqs : SendTransactionReturns(r)
        \/ \E r \in Reqs : ConfirmTransactionReturns(r)
        \/ NewBlock

Spec == Init /\ [][Next]_vars

\* connection.confirmTransaction settles: the library resolves the promise
\* when the node reports the signature's status and rejects it when its own
\* timer expires first.
LiveSpec == Spec /\ \A r \in Reqs : WF_vars(ConfirmTransactionReturns(r))

TypeOK ==
  /\ \A r \in Reqs : pc[r] \in {"idle", "dispatch", "awaitBalance", "awaitBlockhash",
                                "awaitSend", "awaitConfirm", "done"}
  /\ \A r \in Reqs : Len(res[r]) <= 1

(***************************************************************************)
(* Vocabulary of the properties.                                           *)
(***************************************************************************)
Count(seq, x) == Cardinality({ i \in DOMAIN seq : seq[i] = x })
Called(r, call) == \E i \in DOMAIN rpcLog[r] : rpcLog[r][i] = call
IsBalanceQuery(r) == <<req[r].method, req[r].path>> \in BalanceRoutes
IsTransfer(r) == req[r].method = "POST" /\ req[r].path = "/auth/send"
\* The request is (or was) handled by an app-level handler of server.js.
InAppHandler(r) == pos[r].layer > 0 /\ AppStack[pos[r].layer].owner = "app"
Answered(r) == pc[r] = "done" /\ Len(res[r]) >= 1
GateAccepted(r) == user[r] # ""
\* What a client can tell a response's kind by: the status and the error field.
ResponseKind(body) == << body.status, body.error >>

\* C1: a balance RPC call is made for a request only after the gate accepted
\* the request's bearer token.
C1_BalanceOnlyAfterGate ==
  \A r \in Reqs : Called(r, "getBalance") => GateAccepted(r)

\* C2: for a POST /auth/send request no anchor fetch, signing or submission
\* happens unless the gate accepted the request, whichever registration of
\* the path handles it.
C2_TransferOnlyAfterGate ==
  \A r \in Reqs :
    IsTransfer(r) /\ ( \/ rpcLog[r] # <<>>
                       \/ submitted[r] # <<>>
                       \/ frame[r] # NoFrame
                       \/ (InAppHandler(r) /\ pc[r] # "dispatch") )
      => GateAccepted(r)

\* C2 witness: the app-level handler has submitted a transfer for a request
\* that the router passed on.
C2_Witness ==
  \E r \in Reqs : IsTransfer(r) /\ InAppHandler(r) /\ submitted[r] # <<>>
                  /\ GateAccepted(r)

\* C3: a transfer is answered {success: true, signature} only if the submit
\* was accepted and the confirmation reported the transaction committed.
C3_SuccessOnlyIfCommitted ==
  \A r \in Reqs :
    IsTransfer(r) /\ Answered(r) /\ res[r][1].success
      => Called(r, "sendTransaction") /\ confirm[r] = "committed"

\* C4: within one transfer request the transaction is submitted at most once,
\* whatever the outcome of the anchor fetch, the submit and the confirmation.
C4_SubmitAtMostOnce ==
  \A r \in Reqs : Count(rpcLog[r], "sendTransaction") <= 1 /\ Len(submitted[r]) <= 1

\* C4 witness: a confirmation timed out after one submit, and the request
\* was answered.
C4_Witness ==
  \E r \in Reqs : /\ InAppHandler(r) /\ Answered(r)
                  /\ cause[r] = "ConfirmationTimeout"
                  /\ Len(submitted[r]) = 1

\* C5: a transfer request whose amount is <= 0 fails, and no anchor fetch,
\* signing or submission occurs for it.
C5_NonPositiveAmountDoesNothing ==
  \A r \in Reqs :
    IsTransfer(r) /\ req[r].body.amount.t = "number" /\ req[r].body.amount.n <= 0
      => /\ rpcLog[r] = <<>>
         /\ submitted[r] = <<>>
         /\ frame[r].transaction.signers = {}
         /\ (Answered(r) => ~res[r][1].success)

\* C6: a submit call with senderAddress, senderPrivateKey, recipientAddress or
\* amount missing is answered 400 'Missing required fields', and no RPC call
\* is made for it.
C6_MissingFieldIs400 ==
  \A r \in Reqs :
    IsTransfer(r) /\ InAppHandler(r)
    /\ (\E f \in DOMAIN req[r].body : req[r].body[f] = Undefined)
      => /\ rpcLog[r] = <<>>
         /\ pc[r] \in {"dispatch", "done"}
         /\ (pc[r] = "done" =>
               /\ Len(res[r]) = 1
               /\ ResponseKind(res[r][1]) = <<400, "Missing required fields">>)

\* C6 witness: the app-level handler answered a request without its
\* senderPrivateKey.
C6_Witness ==
  \E r \in Reqs : /\ IsTransfer(r) /\ InAppHandler(r) /\ Answered(r)
                  /\ req[r].body.senderPrivateKey = Undefined
                  /\ res[r][1].status = 400

\* C7: the response to a transfer whose confirmation timed out and the
\* response to a transfer the node rejected at submission never have the
\* same kind.
C7_TimeoutDistinctFromRejected ==
  \A r1, r2 \in Reqs :
    /\ Answered(r1) /\ cause[r1] = "ConfirmationTimeout"
    /\ Answered(r2) /\ cause[r2] = "SubmissionRejected"
    => ResponseKind(res[r1][1]) # ResponseKind(res[r2][1])

\* C8: every submit is preceded, in the same request, by an anchor fetch that
\* succeeded, and the submitted transaction carries the blockhash the node
\* returned to that request's own fetch.
C8_SubmitCarriesOwnAnchor ==
  \A r \in Reqs :
    /\ \A i \in DOMAIN rpcLog[r] :
         rpcLog[r][i] = "sendTransaction"
           => \E j \in 1..(i - 1) : rpcLog[r][j] = "getLatestBlockhash"
    /\ \A i \in DOMAIN submitted[r] :
         /\ Len(issued[r]) = 1
         /\ submitted[r][i].recentBlockhash = issued[r][1]

\* C8 witness: two requests have each submitted a transaction, with
\* different blockhashes.
C8_Witness ==
  \E r1, r2 \in Reqs :
    /\ submitted[r1] # <<>> /\ submitted[r2] # <<>>
    /\ submitted[r1][1].recentBlockhash # submitted[r2][1].recentBlockhash

\* C9: a transfer request whose secret key has the wrong length fails at the
\* reconstruction of the key pair, and no RPC call is made for it.
C9_BadKeyNoNetwork ==
  \A r \in Reqs :
    IsTransfer(r) /\ req[r].body.senderPrivateKey.t = "array"
    /\ req[r].body.senderPrivateKey.len # 64
      => /\ rpcLog[r] = <<>>
         /\ submitted[r] = <<>>
         /\ (Answered(r) => ~res[r][1].success)
         /\ (Answered(r) /\ InAppHandler(r) /\ res[r][1].status # 400
               => cause[r] = "InvalidKeyMaterial")

\* C9 witness: the app-level handler answered 500 to a request with a
\* 32-byte secret key.
C9_Witness ==
  \E r \in Reqs : /\ IsTransfer(r) /\ InAppHandler(r) /\ Answered(r)
                  /\ req[r].body.senderPrivateKey.t = "array"
                  /\ req[r].body.senderPrivateKey.len # 64
                  /\ res[r][1].status = 500

\* C10: a balance query whose address is malformed fails, and the balance
\* RPC is never called for it.
C10_BadAddressNoRpc ==
  \A r \in Reqs :
    IsBalanceQuery(r) /\ ~(req[r].address.t = "string" /\ req[r].address.s \in Accounts)
      => /\ ~Called(r, "getBalance")
         /\ pc[r] # "awaitBalance"
         /\ (Answered(r) => res[r][1].status # 200)

\* C10 witness: getBalance threw for a malformed address and the app-level
\* handler answered 500.
C10_Witness ==
  \E r \in Reqs : /\ IsBalanceQuery(r) /\ InAppHandler(r) /\ Answered(r)
                  /\ req[r].address = Str("bad")
                  /\ res[r][1].status = 500

\* The request is between two awaits of sendSolTransaction.
InFlight(r) == pc[r] \in {"awaitBlockhash", "awaitSend", "awaitConfirm"}

\* C11: whatever the interleaving of two transfer requests, the transaction
\* submitted for a request is signed by the key pair of that request's own
\* secret key and carries that request's own recipient and amount and the
\* blockhash the node returned to that request; the key pair a request holds
\* is its own.
C11_RequestsDoNotInterfere ==
  \A r \in Reqs :
    /\ frame[r].senderKeypair # ""
         => frame[r].senderKeypair = req[r].body.senderPrivateKey.seed
    /\ \A i \in DOMAIN submitted[r] :
         LET tx == submitted[r][i]
             b == req[r].body
         IN /\ tx.signers = {b.senderPrivateKey.seed}
            /\ tx.fromPubkey = b.senderPrivateKey.seed
            /\ tx.toPubkey = b.recipientAddress.s
            /\ tx.lamports = b.amount.n * LamportsPerSol
            /\ issued[r] # <<>>
            /\ tx.recentBlockhash = issued[r][Len(issued[r])]

\* C11 witness: two transfers from different senders are in flight at the
\* same time, both submitted, with different recipients, amounts and anchors.
C11_Witness ==
  \E r1, r2 \in Reqs :
    /\ r1 # r2
    /\ InFlight(r1) /\ InFlight(r2)
    /\ submitted[r1] # <<>> /\ submitted[r2] # <<>>
    /\ submitted[r1][1].signers # submitted[r2][1].signers
    /\ submitted[r1][1].toPubkey # submitted[r2][1].toPubkey
    /\ submitted[r1][1].lamports # submitted[r2][1].lamports
    /\ submitted[r1][1].recentBlockhash # submitted[r2][1].recentBlockhash

\* C12: a transfer request that reaches the confirmation wait is eventually
\* answered, and when the wait ends with a timeout the request is answered
\* with a failure.
C12_ConfirmationWaitEnds ==
  /\ \A r \in Reqs : (pc[r] = "awaitConfirm") ~> (pc[r] = "done" /\ Len(res[r]) = 1)
  /\ [](\A r \in Reqs :
          confirm[r] = "timeout"
            => /\ Answered(r)
               /\ res[r][1].status = 500
               /\ ~res[r][1].success
               /\ cause[r] = "ConfirmationTimeout")

\* C12 witness: the confirmation wait of a transfer handled by
\* sendSolTransaction timed out and the request was answered 500.
C12_Witness ==
  \E r \in Reqs : /\ InAppHandler(r) /\ confirm[r] = "timeout"
                  /\ Called(r, "confirmTransaction")
                  /\ pc[r] = "done" /\ Len(res[r]) = 1
                  /\ res[r][1].status = 500

\* C13: a failure raised in getBalance or sendSolTransaction (a malformed
\* address or key, a rejected anchor fetch, submit, confirmation or balance
\* call) is answered at once with status 500 and an error body, never with a
\* success response and never with no response.
C13_FailuresSurface ==
  \A r \in Reqs :
    InAppHandler(r) /\ cause[r] # ""
      => /\ pc[r] = "done"
         /\ Len(res[r]) = 1
         /\ res[r][1].status = 500
         /\ res[r][1].error \in {"Transaction failed", "Failed to retrieve balance"}
         /\ ~res[r][1].success
         /\ res[r][1].signature = ""

\* C13 witness: a rejected balance call and a rejected submit were each
\* answered 500.
C13_Witness ==
  \E r1, r2 \in Reqs :
    /\ InAppHandler(r1) /\ IsBalanceQuery(r1) /\ cause[r1] = "UpstreamUnavailable"
    /\ Called(r1, "getBalance") /\ res[r1] # <<>> /\ res[r1][1].status = 500
    /\ InAppHandler(r2) /\ IsTransfer(r2) /\ cause[r2] = "SubmissionRejected"
    /\ res[r2] # <<>> /\ res[r2][1].status = 500

\* The RPC calls of one transfer, in the order of the stages.
Stages == <<"getLatestBlockhash", "sendTransaction", "confirmTransaction">>
IsPrefix(a, b) == Len(a) <= Len(b) /\ \A i \in DOMAIN a : a[i] = b[i]

\* C14: the stages of a transfer run in the order key pair, recipient, anchor
\* fetch, submit, confirm, and the stage that fails is the last one: no RPC
\* call follows a failed validation, no submit a failed anchor fetch, no
\* confirm a failed submit.
C14_StagesInOrder ==
  \A r \in Reqs :
    IsTransfer(r)
      => /\ IsPrefix(rpcLog[r], Stages)
         /\ cause[r] \in {"MissingFields", "InvalidKeyMaterial", "InvalidAddress",
                          "InvalidAmount"} => rpcLog[r] = <<>>
         /\ cause[r] = "UpstreamUnavailable" => rpcLog[r] = <<"getLatestBlockhash">>
         /\ cause[r] = "SubmissionRejected"
              => rpcLog[r] = <<"getLatestBlockhash", "sendTransaction">>
         /\ cause[r] = "ConfirmationTimeout" => rpcLog[r] = Stages
         /\ cause[r] # "" => pc[r] = "done"
         /\ ( /\ req[r].body.senderPrivateKey.t = "array"
              /\ req[r].body.senderPrivateKey.len # 64 )
              => cause[r] # "InvalidAddress"

\* C14 witness: for one transfer the anchor fetch failed and nothing followed,
\* for another the submit was rejected and no confirmation followed.
C14_Witness ==
  \E r1, r2 \in Reqs :
    /\ InAppHandler(r1) /\ IsTransfer(r1) /\ pc[r1] = "done"
    /\ cause[r1] = "UpstreamUnavailable" /\ rpcLog[r1] = <<"getLatestBlockhash">>
    /\ InAppHandler(r2) /\ IsTransfer(r2) /\ pc[r2] = "done"
    /\ cause[r2] = "SubmissionRejected" /\ Len(rpcLog[r2]) = 2

\* C15: in every transaction built for a transfer the fee payer is the
\* account the transfer takes the lamports from.
C15_FeePayerIsSource ==
  \A r \in Reqs :
    /\ frame[r].transaction.feePayer # ""
         => frame[r].transaction.feePayer = frame[r].transaction.fromPubkey
    /\ \A i \in DOMAIN submitted[r] :
         /\ submitted[r][i].feePayer # ""
         /\ submitted[r][i].feePayer = submitted[r][i].fromPubkey

\* C15 witness: a transaction was submitted for a request whose senderAddress
\* names another account than its key; its fee payer is the transfer's source.
C15_Witness ==
  \E r \in Reqs :
    /\ submitted[r] # <<>>
    /\ req[r].body.senderAddress.s # req[r].body.senderPrivateKey.seed
    /\ submitted[r][1].feePayer = submitted[r][1].fromPubkey

\* The request passes the handler's presence check and the validations of
\* sendSolTransaction, whatever its senderAddress.
Sendable(b) ==
  /\ b.senderAddress.t = "string" /\ b.senderAddress.s # ""
  /\ b.senderPrivateKey.t = "array" /\ b.senderPrivateKey.len = 64
  /\ b.recipientAddress.t = "string" /\ b.recipientAddress.s \in Accounts
  /\ b.amount.t = "number" /\ b.amount.n > 0

\* A transaction without its blockhash.
Unanchored(tx) == [tx EXCEPT !.recentBlockhash = 0]

\* C16: senderAddress is checked only for presence.  The source and the fee
\* payer of a submitted transaction are the account of the supplied key; a
\* request that is well-formed but for a senderAddress that does not match
\* the key goes on to the anchor fetch; and two requests that differ only in
\* a non-empty senderAddress submit the same transaction (up to the
\* blockhash each one fetched).
C16_SenderAddressOnlyPresence ==
  /\ \A r \in Reqs :
       /\ \A i \in DOMAIN submitted[r] :
            /\ submitted[r][i].fromPubkey = req[r].body.senderPrivateKey.seed
            /\ submitted[r][i].feePayer = req[r].body.senderPrivateKey.seed
       /\ IsTransfer(r) /\ InAppHandler(r) /\ pc[r] # "dispatch" /\ Sendable(req[r].body)
            => rpcLog[r] # <<>>
  /\ \A r1, r2 \in Reqs :
       /\ IsTransfer(r1) /\ InAppHandler(r1) /\ pc[r1] # "dispatch"
       /\ IsTransfer(r2) /\ InAppHandler(r2) /\ pc[r2] # "dispatch"
       /\ ~Falsy(req[r1].body.senderAddress) /\ ~Falsy(req[r2].body.senderAddress)
       /\ [req[r1].body EXCEPT !.senderAddress = Undefined]
            = [req[r2].body EXCEPT !.senderAddress = Undefined]
       => /\ (rpcLog[r1] = <<>>) <=> (rpcLog[r2] = <<>>)
          /\ submitted[r1] # <<>> /\ submitted[r2] # <<>>
               => Unanchored(submitted[r1][1]) = Unanchored(submitted[r2][1])

\* C16 witness: two requests that differ only in senderAddress, one of them
\* naming another account than the key's, have both been submitted.
C16_Witness ==
  \E r1, r2 \in Reqs :
    /\ submitted[r1] # <<>> /\ submitted[r2] # <<>>
    /\ req[r1].body.senderAddress # req[r2].body.senderAddress
    /\ [req[r1].body EXCEPT !.senderAddress = Undefined]
         = [req[r2].body EXCEPT !.senderAddress = Undefined]
    /\ req[r2].body.senderAddress.s # req[r2].body.senderPrivateKey.seed
    /\ Unanchored(submitted[r1][1]) = Unanchored(submitted[r2][1])

\* The bodies the app-level balance handler sends.
BalanceResponse(body) ==
  \/ body.status = 200 /\ body.error = "" /\ ~body.success
  \/ body.status = 500 /\ body.error = "Failed to retrieve balance"

\* The bodies the app-level transfer handler sends.
TransferResponse(body) ==
  \/ body.status = 400 /\ body.error = "Missing required fields"
  \/ body.status = 200 /\ body.success /\ body.error = ""
  \/ body.status = 500 /\ body.error = "Transaction failed"

\* C17: a request handled by the app-level balance or transfer handler gets
\* no response while the handler runs or waits and exactly one when it is
\* done: a balance body or a 500 from the balance handler; a 400, a 200 or a
\* 500 from the transfer handler.
C17_ExactlyOneResponse ==
  \A r \in Reqs :
    InAppHandler(r)
      => /\ Len(res[r]) <= 1
         /\ (pc[r] = "done") <=> (Len(res[r]) = 1)
         /\ Len(res[r]) = 1
              => IF IsBalanceQuery(r) THEN BalanceResponse(res[r][1])
                                      ELSE TransferResponse(res[r][1])

\* C17 witness: the balance handler has answered one request with a balance
\* and the transfer handler another with a 400.
C17_Witness ==
  \E r1, r2 \in Reqs :
    /\ InAppHandler(r1) /\ IsBalanceQuery(r1) /\ Len(res[r1]) = 1
    /\ res[r1][1].status = 200
    /\ InAppHandler(r2) /\ IsTransfer(r2) /\ Len(res[r2]) = 1
    /\ res[r2][1].status = 400
====
